---- MODULE Spec2Model ----
(***************************************************************************)
(* A model of tescherm/misc: the memory-mapped card deck                   *)
(* (projects/deck, the Deck with topIdx and cards) and the two-pass        *)
(* external shuffler (projects/shuffle).                                   *)
(*                                                                         *)
(* The specifications share the variables:                                 *)
(*   Spec      one caller using a deck: Deal, Return, Shuffle, Size, Close *)
(*   SpecConc  several goroutines calling the deck through its RWMutex     *)
(*   SpecCalls the goroutines calling Size, Deal, Return and Shuffle only, *)
(*             with a fair scheduler and a fair lock                       *)
(*   SpecShuf  one run of the Shuffler: FirstPass, SecondPass, Close       *)
(*   SpecCodec the card codec applied to cards: NewCard, Face, Value and   *)
(*             the String methods                                          *)
(***************************************************************************)
EXTENDS Integers, Sequences, FiniteSets, Bags, TLC

VARIABLES
    topIdx,     \* Deck.topIdx
    cards,      \* Deck.cards, the mapped bytes, indexed from 0; empty = nil
    file,       \* Deck.file: "open" or "closed"
    op,         \* the last call made on the deck
    arg,        \* its argument (a card byte, or Nil)
    res,        \* what it returned (a card byte, a size, or Nil)
    err,        \* the error it returned ("" = nil), or the runtime panic
    pre,        \* <<topIdx, cards>> as they were before the last Deal
    drawn       \* successful Deals since NewDeck while nothing but Deal and
                \* Size was called; Nil once anything else was called

storeVars == <<topIdx, cards, file, op, arg, res, err, pre, drawn>>

VARIABLES
    pc,         \* where each goroutine is in its call on the deck
    call,       \* the method each goroutine is calling, "" between calls
    hand,       \* the card each goroutine holds (Nil = none)
    readers,    \* Deck.RWMutex: the goroutines that hold it for reading
    writer,     \* Deck.RWMutex: the goroutine that holds it for writing, 0 = none
    start       \* Deck.topIdx as it was before the first call on the deck

concVars == <<pc, call, hand, readers, writer, start>>

VARIABLES
    input,      \* the lines of the Shuffler's input file
    piles,      \* Shuffler.piles: per pile, its file f and the lines written to it
    temps,      \* the piles whose temporary file exists on disk
    out,        \* the lines written to the output file
    streams,    \* whether Shuffler.in and Shuffler.out are open
    phase,      \* the last Shuffler method called
    serr,       \* the error it returned ("" = nil), or the runtime panic
    fault       \* the I/O failure the pass met, "none" if none

shufVars == <<input, piles, temps, out, streams, phase, serr, fault>>

VARIABLES
    coded,      \* a Card: the byte the codec is applied to, Nil = none
    rank,       \* what Card.Value() returned for it, Nil = not called
    suit,       \* what Card.Face() returned for it, Nil = not called
    text,       \* what the last String() call returned, or the runtime panic
    made,       \* <<value, face>> if coded was made by NewCard(value, face)
    cop         \* the last codec function called

codecVars == <<coded, rank, suit, text, made, cop>>

vars == <<storeVars, concVars, shufVars, codecVars>>

----------------------------------------------------------------------------
(* Bounds of the model *)

\* NewDeck is called with 0..MaxIterations iterations
MaxIterations == 2

\* Shuffle is explored on decks with topIdx <= MaxShuffleTop
MaxShuffleTop == 3

\* a caller gives back a card it did not draw into slots 0..MaxForeignTop
MaxForeignTop == 1

\* the goroutines that share one deck are 1..NumGoroutines
NumGoroutines == 2

\* the goroutines start on a deck already dealt down to topIdx <= MaxStartTop
MaxStartTop == 2

\* the calls whose return is checked start on a deck dealt down to
\* topIdx <= MaxCallsTop
MaxCallsTop == 1

\* the Shuffler's input file holds 0..MaxLines lines
MaxLines == 3

----------------------------------------------------------------------------
(* The card codec *)

cardOffset == 32

ACE == 0
KING == 12
SPADE == 0
HEART == 1
CLUB == 2
DIAMOND == 3

Values == [i \in 1..(KING + 1) |-> i - 1]

Faces == <<SPADE, HEART, CLUB, DIAMOND>>

\* NewCard with the faces 8 apart
NewCardNarrow(value, face) == (face * 8 + value) % 256

\* Card is a byte
NewCard(value, face) == (face * cardOffset + value) % 256

CardFace(c) == c \div cardOffset

CardValue(c) == c % cardOffset

----------------------------------------------------------------------------
(* Values shared by the operations *)

Nil == -1

NoErr == ""

ErrEmpty == "deal called on an empty deck"

ErrNilCard == "cannot return a nil card"

ErrMmap == "deck mmap failed"

\* a runtime panic: an index out of the range of cards
Panic == "panic: index out of range"

NilCards == [k \in {} |-> 0]

NoPre == <<Nil, NilCards>>

NoPair == <<Nil, Nil>>

len(arr) == Cardinality(DOMAIN arr)

\* the region is mapped: Close has not released it
Mapped == len(cards) > 0

\* the records at indices 0..top, as a sequence
Avail(arr, top) == [k \in 1..(top + 1) |-> arr[k - 1]]

RECURSIVE BagOfSeq(_)
BagOfSeq(s) == IF s = <<>> THEN EmptyBag ELSE SetToBag({Head(s)}) (+) BagOfSeq(Tail(s))

----------------------------------------------------------------------------
(* NewDeck *)

\* the inner loop of NewDeck: one card per value, for one face
FaceRun(face) == [i \in 1..Len(Values) |-> NewCard(Values[i], face)]

RECURSIVE FacesLoop(_)
FacesLoop(f) == IF f > Len(Faces) THEN <<>> ELSE FaceRun(Faces[f]) \o FacesLoop(f + 1)

RECURSIVE IterationsLoop(_)
IterationsLoop(n) == IF n = 0 THEN <<>> ELSE FacesLoop(1) \o IterationsLoop(n - 1)

deckSize(iterations) == iterations * Len(Faces) * Len(Values)

\* NewDeck with the loop over Values outside the loop over Faces
NewDeckCardsValuesOuter(iterations) ==
    [k \in 0..(deckSize(iterations) - 1) |->
        NewCard(Values[((k % (Len(Faces) * Len(Values))) \div Len(Faces)) + 1],
                Faces[(k % Len(Faces)) + 1])]

NewDeckCards(iterations) ==
    LET written == IterationsLoop(iterations)
    IN  [k \in 0..(Len(written) - 1) |-> written[k + 1]]

\* NewDeck returned a deck (mapping an empty file fails)
Constructed == ~(op = "NewDeck" /\ err # NoErr)

\* the process runs: a deck exists and no panic has ended the program
Alive == Constructed /\ err # Panic

NewDeck(iterations) ==
    /\ op = "NewDeck"
    /\ arg = iterations
    /\ res = Nil
    /\ pre = NoPre
    /\ drawn = 0
    /\ IF deckSize(iterations) > 0
       THEN /\ err = NoErr
            /\ cards = NewDeckCards(iterations)
            /\ topIdx = len(cards) - 1
            /\ file = "open"
       ELSE /\ err = ErrMmap
            /\ cards = NilCards
            /\ topIdx = Nil
            /\ file = "closed"

Goroutines == 1..NumGoroutines

\* no goroutine is in a call and the lock is free
NoCalls ==
    /\ pc = [t \in Goroutines |-> "idle"]
    /\ call = [t \in Goroutines |-> ""]
    /\ hand = [t \in Goroutines |-> Nil]
    /\ readers = {}
    /\ writer = 0

\* no Shuffler has been made
NoShuffler ==
    /\ input = <<>>
    /\ piles = <<>>
    /\ temps = {}
    /\ out = <<>>
    /\ streams = "none"
    /\ phase = ""
    /\ serr = NoErr
    /\ fault = "none"

\* the codec is not in use
NoCodec ==
    /\ coded = Nil
    /\ rank = Nil
    /\ suit = Nil
    /\ text = ""
    /\ made = NoPair
    /\ cop = ""

Init ==
    /\ \E iterations \in 0..MaxIterations : NewDeck(iterations)
    /\ start = topIdx
    /\ NoCalls
    /\ NoShuffler
    /\ NoCodec

----------------------------------------------------------------------------
(* Size *)

SizeBody == topIdx + 1

Size ==
    /\ Alive
    /\ op' = "Size"
    /\ arg' = Nil
    /\ res' = SizeBody
    /\ err' = NoErr
    /\ pre' = NoPre
    /\ UNCHANGED <<topIdx, cards, file, drawn>>
    /\ UNCHANGED <<concVars, shufVars, codecVars>>

----------------------------------------------------------------------------
(* Deal *)

\* Deal with the empty check off by one
DealBodyEmptyAtOne(arr, top) ==
    IF top <= 0 THEN [top |-> top, res |-> Nil, err |-> ErrEmpty]
    ELSE IF top >= len(arr) THEN [top |-> top, res |-> Nil, err |-> Panic]
    ELSE [top |-> top - 1, res |-> arr[top], err |-> NoErr]

\* Deal that leaves topIdx where it was
DealBodyKeepsTop(arr, top) ==
    IF top < 0 THEN [top |-> top, res |-> Nil, err |-> ErrEmpty]
    ELSE IF top >= len(arr) THEN [top |-> top, res |-> Nil, err |-> Panic]
    ELSE [top |-> top, res |-> arr[top], err |-> NoErr]

\* what Deal does under the lock: [top, res, err]
DealBody(arr, top) ==
    IF top < 0 THEN [top |-> top, res |-> Nil, err |-> ErrEmpty]
    ELSE IF top >= len(arr) THEN [top |-> top, res |-> Nil, err |-> Panic]
    ELSE [top |-> top - 1, res |-> arr[top], err |-> NoErr]

Deal ==
    /\ Alive
    /\ LET r == DealBody(cards, topIdx)
       IN  /\ topIdx' = r.top
           /\ res' = r.res
           /\ err' = r.err
           /\ drawn' = IF drawn # Nil /\ r.err = NoErr THEN drawn + 1 ELSE drawn
    /\ op' = "Deal"
    /\ arg' = Nil
    /\ pre' = <<topIdx, cards>>
    /\ UNCHANGED <<cards, file>>
    /\ UNCHANGED <<concVars, shufVars, codecVars>>

----------------------------------------------------------------------------
(* Return *)

\* Return that writes the card before it moves topIdx
ReturnBodyWriteFirst(arr, top, c) ==
    IF c = Nil THEN [top |-> top, cards |-> arr, err |-> ErrNilCard]
    ELSE IF top + 1 >= len(arr) THEN [top |-> top + 1, cards |-> arr, err |-> Panic]
    ELSE [top |-> top + 1,
          cards |-> IF top >= 0 THEN [arr EXCEPT ![top] = c] ELSE arr,
          err |-> NoErr]

\* Return that moves topIdx before it looks at the card
ReturnBodyNilLate(arr, top, c) ==
    IF c = Nil THEN [top |-> top + 1, cards |-> arr, err |-> ErrNilCard]
    ELSE IF top + 1 >= len(arr) THEN [top |-> top + 1, cards |-> arr, err |-> Panic]
    ELSE [top |-> top + 1, cards |-> [arr EXCEPT ![top + 1] = c], err |-> NoErr]

\* what Return does under the lock: [top, cards, err]
ReturnBody(arr, top, c) ==
    IF c = Nil THEN [top |-> top, cards |-> arr, err |-> ErrNilCard]
    ELSE IF top + 1 >= len(arr) THEN [top |-> top + 1, cards |-> arr, err |-> Panic]
    ELSE [top |-> top + 1, cards |-> [arr EXCEPT ![top + 1] = c], err |-> NoErr]

\* cards a caller did not draw from this deck: the card BenchmarkDeck_Return
\* gives back, and a byte that encodes no card
ForeignCards == {NewCard(ACE, SPADE), 255}

\* what a caller passes to Return: nil, the card Deal just gave it, or, into
\* the low slots and onto a full deck, a foreign card
ReturnArgs ==
    {Nil}
    \cup (IF op = "Deal" /\ err = NoErr THEN {res} ELSE {})
    \cup (IF topIdx + 1 <= MaxForeignTop \/ topIdx + 1 >= len(cards)
          THEN ForeignCards ELSE {})

Return(c) ==
    /\ Alive
    /\ LET r == ReturnBody(cards, topIdx, c)
       IN  /\ topIdx' = r.top
           /\ cards' = r.cards
           /\ err' = r.err
    /\ op' = "Return"
    /\ arg' = c
    /\ res' = Nil
    /\ pre' = IF op = "Deal" THEN pre ELSE NoPre
    /\ drawn' = Nil
    /\ UNCHANGED file
    /\ UNCHANGED <<concVars, shufVars, codecVars>>

----------------------------------------------------------------------------
(* Shuffle *)

\* a swap that forgets tmp
SwapNoTmp(arr, i, j) == [arr EXCEPT ![i] = arr[j]]

Swap(arr, i, j) == [arr EXCEPT ![i] = arr[j], ![j] = arr[i]]

\* the values rnd.Intn(int(n-i)) can return, for every i of the loop
RndChoices(n) == {r \in [0..(n - 1) -> 0..(n - 1)] : \A i \in 0..(n - 1) : r[i] < n - i}

\* the loop of fisherYatesShuffle from index i down to 0
RECURSIVE fisherYatesLoop(_, _, _, _)
fisherYatesLoop(arr, n, i, r) ==
    IF i < 0 THEN arr
    ELSE LET j == r[i] + i
         IN  fisherYatesLoop(Swap(arr, i, j), n, i - 1, r)

fisherYatesShuffle(arr, n, r) == fisherYatesLoop(arr, n, n - 1, r)

\* the pairs <<i, j>> the loop of fisherYatesShuffle swaps, from index i down
\* to 0, in the order it swaps them
RECURSIVE fisherYatesSwaps(_, _, _)
fisherYatesSwaps(n, i, r) ==
    IF i < 0 THEN <<>>
    ELSE LET j == r[i] + i
         IN  <<<<i, j>>>> \o fisherYatesSwaps(n, i - 1, r)

\* every sequence of swaps one call of Shuffle can make: it passes topIdx as n
ShuffleSwaps(top) == {fisherYatesSwaps(top, top - 1, r) : r \in RndChoices(top)}

\* the first index the loop touches, n-1, lies outside arr
ShufflePanics(arr, n) == n >= 1 /\ n - 1 >= len(arr)

\* every content of cards one call of Shuffle can leave
ShuffleResults(arr, top) == {fisherYatesShuffle(arr, top, r) : r \in RndChoices(top)}

Shuffle ==
    /\ Alive
    /\ topIdx <= MaxShuffleTop
    /\ IF ShufflePanics(cards, topIdx)
       THEN /\ err' = Panic
            /\ UNCHANGED cards
       ELSE /\ err' = NoErr
            /\ cards' \in ShuffleResults(cards, topIdx)
    /\ op' = "Shuffle"
    /\ arg' = Nil
    /\ res' = Nil
    /\ pre' = NoPre
    /\ drawn' = Nil
    /\ UNCHANGED <<topIdx, file>>
    /\ UNCHANGED <<concVars, shufVars, codecVars>>

----------------------------------------------------------------------------
(* Close *)

ErrFlush == "deck file flush failed"

ErrUnmap == "deck file unmap failed"

ErrClose == "deck file close failed"

\* the step of Close that fails, if any; closing a closed file always fails
CloseOutcomes == {ErrFlush, ErrUnmap, ErrClose} \cup (IF file = "open" THEN {NoErr} ELSE {})

Close ==
    /\ Alive
    /\ \E e \in CloseOutcomes :
        /\ err' = e
        /\ cards' = IF e = ErrFlush THEN cards ELSE NilCards
        /\ file' = IF e \in {ErrFlush, ErrUnmap} THEN file ELSE "closed"
    /\ op' = "Close"
    /\ arg' = Nil
    /\ res' = Nil
    /\ pre' = NoPre
    /\ drawn' = Nil
    /\ UNCHANGED topIdx
    /\ UNCHANGED <<concVars, shufVars, codecVars>>

----------------------------------------------------------------------------
(* One caller *)

Next ==
    \/ Size
    \/ Deal
    \/ \E c \in ReturnArgs : Return(c)
    \/ Shuffle
    \/ Close

Spec == Init /\ [][Next]_vars

----------------------------------------------------------------------------
(* Several goroutines on one deck *)

\* the methods that take the lock for writing, and the one that reads
WriteCalls == {"Deal", "Return", "Shuffle"}

\* Deal taking the lock for reading
ReadCallsWithDeal == {"Size", "Deal"}

ReadCalls == {"Size"}

\* the goroutines start on the deck of TestDeck, NewDeck(1), that one caller
\* has dealt down
InitConc ==
    /\ cards = NewDeckCards(1)
    /\ topIdx \in -1..MaxStartTop
    /\ file = "open"
    /\ op = "NewDeck"
    /\ arg = Nil
    /\ res = Nil
    /\ err = NoErr
    /\ pre = NoPre
    /\ drawn = Nil
    /\ start = topIdx
    /\ NoCalls
    /\ NoShuffler
    /\ NoCodec

\* goroutine t calls method m; it gives back the card it holds, nil if it
\* holds none, and draws only when it holds none
Call(t, m) ==
    /\ Alive
    /\ pc[t] = "idle"
    /\ m = "Deal" => hand[t] = Nil
    /\ pc' = [pc EXCEPT ![t] = IF m = "Close" THEN "close" ELSE "lock"]
    /\ call' = [call EXCEPT ![t] = m]
    /\ UNCHANGED <<storeVars, hand, readers, writer, start, shufVars, codecVars>>

\* sync.RWMutex: the goroutines blocked in Lock(), and those blocked in RLock()
WaitingWriters == {u \in Goroutines : pc[u] = "lock" /\ call[u] \in WriteCalls}

WaitingReaders == {u \in Goroutines : pc[u] = "lock" /\ call[u] \in ReadCalls}

\* sync.RWMutex: a reader enters when no writer holds the lock and none has
\* announced itself (a blocked Lock() keeps new readers out)
RLockFree == writer = 0 /\ WaitingWriters = {}

\* sync.RWMutex: a writer enters when nobody holds the lock
LockFree == writer = 0 /\ readers = {}

\* d.RLock() returns
RLock(t) ==
    /\ Alive
    /\ pc[t] = "lock"
    /\ call[t] \in ReadCalls
    /\ RLockFree
    /\ readers' = readers \cup {t}
    /\ pc' = [pc EXCEPT ![t] = "locked"]
    /\ UNCHANGED <<storeVars, call, hand, writer, start, shufVars, codecVars>>

\* d.Lock() returns
Lock(t) ==
    /\ Alive
    /\ pc[t] = "lock"
    /\ call[t] \in WriteCalls
    /\ LockFree
    /\ writer' = t
    /\ pc' = [pc EXCEPT ![t] = "locked"]
    /\ UNCHANGED <<storeVars, call, hand, readers, start, shufVars, codecVars>>

\* the body of Size
SizeRun(t) ==
    /\ Alive
    /\ pc[t] = "locked"
    /\ call[t] = "Size"
    /\ pc' = [pc EXCEPT ![t] = "unlock"]
    /\ UNCHANGED <<storeVars, call, hand, readers, writer, start, shufVars, codecVars>>

\* the body of Deal
DealRun(t) ==
    /\ Alive
    /\ pc[t] = "locked"
    /\ call[t] = "Deal"
    /\ LET r == DealBody(cards, topIdx)
       IN  /\ topIdx' = r.top
           /\ err' = IF r.err = Panic THEN Panic ELSE NoErr
           /\ hand' = [hand EXCEPT ![t] = r.res]
    /\ pc' = [pc EXCEPT ![t] = "unlock"]
    /\ UNCHANGED <<cards, file, op, arg, res, pre, drawn, call, readers, writer, start, shufVars, codecVars>>

\* the body of Return
ReturnRun(t) ==
    /\ Alive
    /\ pc[t] = "locked"
    /\ call[t] = "Return"
    /\ LET r == ReturnBody(cards, topIdx, hand[t])
       IN  /\ topIdx' = r.top
           /\ cards' = r.cards
           /\ err' = IF r.err = Panic THEN Panic ELSE NoErr
           /\ hand' = [hand EXCEPT ![t] = IF r.err = NoErr THEN Nil ELSE @]
    /\ pc' = [pc EXCEPT ![t] = "unlock"]
    /\ UNCHANGED <<file, op, arg, res, pre, drawn, call, readers, writer, start, shufVars, codecVars>>

\* the body of Shuffle
ShuffleRun(t) ==
    /\ Alive
    /\ pc[t] = "locked"
    /\ call[t] = "Shuffle"
    /\ topIdx <= MaxShuffleTop
    /\ IF ShufflePanics(cards, topIdx)
       THEN /\ err' = Panic
            /\ UNCHANGED cards
       ELSE /\ err' = NoErr
            /\ cards' \in ShuffleResults(cards, topIdx)
    /\ pc' = [pc EXCEPT ![t] = "unlock"]
    /\ UNCHANGED <<topIdx, file, op, arg, res, pre, drawn, call, hand, readers, writer, start, shufVars, codecVars>>

\* the deferred d.RUnlock(), and the return of the call
RUnlock(t) ==
    /\ Alive
    /\ pc[t] = "unlock"
    /\ call[t] \in ReadCalls
    /\ readers' = readers \ {t}
    /\ pc' = [pc EXCEPT ![t] = "idle"]
    /\ call' = [call EXCEPT ![t] = ""]
    /\ UNCHANGED <<storeVars, hand, writer, start, shufVars, codecVars>>

\* the call returns and the lock stays with the writer
UnlockKeepsLock(t) ==
    /\ Alive
    /\ pc[t] = "unlock"
    /\ call[t] \in WriteCalls
    /\ pc' = [pc EXCEPT ![t] = "idle"]
    /\ call' = [call EXCEPT ![t] = ""]
    /\ UNCHANGED <<storeVars, hand, readers, writer, start, shufVars, codecVars>>

\* the deferred d.Unlock(), and the return of the call; sync.RWMutex.Unlock
\* lets in every reader that is blocked in RLock() before it frees the lock
\* for the next writer
Unlock(t) ==
    /\ Alive
    /\ pc[t] = "unlock"
    /\ call[t] \in WriteCalls
    /\ writer' = IF writer = t THEN 0 ELSE writer
    /\ readers' = readers \cup WaitingReaders
    /\ pc' = [u \in Goroutines |->
                IF u = t THEN "idle"
                ELSE IF u \in WaitingReaders THEN "locked"
                ELSE pc[u]]
    /\ call' = [call EXCEPT ![t] = ""]
    /\ UNCHANGED <<storeVars, hand, start, shufVars, codecVars>>

\* Close, which takes no lock: the region is unmapped and the file closed
CloseRun(t) ==
    /\ Alive
    /\ pc[t] = "close"
    /\ cards' = NilCards
    /\ file' = "closed"
    /\ pc' = [pc EXCEPT ![t] = "idle"]
    /\ call' = [call EXCEPT ![t] = ""]
    /\ UNCHANGED <<topIdx, op, arg, res, err, pre, drawn, hand, readers, writer, start, shufVars, codecVars>>

NextConc ==
    \/ \E t \in Goroutines : \E m \in ReadCalls \cup WriteCalls \cup {"Close"} : Call(t, m)
    \/ \E t \in Goroutines : RLock(t)
    \/ \E t \in Goroutines : Lock(t)
    \/ \E t \in Goroutines : SizeRun(t)
    \/ \E t \in Goroutines : DealRun(t)
    \/ \E t \in Goroutines : ReturnRun(t)
    \/ \E t \in Goroutines : ShuffleRun(t)
    \/ \E t \in Goroutines : RUnlock(t)
    \/ \E t \in Goroutines : Unlock(t)
    \/ \E t \in Goroutines : CloseRun(t)

SpecConc == InitConc /\ [][NextConc]_vars

\* the goroutines call Size, Deal, Return and Shuffle only, and nobody closes
\* the deck while they do
NextCalls ==
    \/ \E t \in Goroutines : \E m \in ReadCalls \cup WriteCalls : Call(t, m)
    \/ \E t \in Goroutines : RLock(t)
    \/ \E t \in Goroutines : Lock(t)
    \/ \E t \in Goroutines : SizeRun(t)
    \/ \E t \in Goroutines : DealRun(t)
    \/ \E t \in Goroutines : ReturnRun(t)
    \/ \E t \in Goroutines : ShuffleRun(t)
    \/ \E t \in Goroutines : RUnlock(t)
    \/ \E t \in Goroutines : Unlock(t)

\* the steps of goroutine t that wait for nothing
Runs(t) ==
    \/ SizeRun(t)
    \/ DealRun(t)
    \/ ReturnRun(t)
    \/ ShuffleRun(t)
    \/ RUnlock(t)
    \/ Unlock(t)

\* the scheduler runs every goroutine that can run, and the lock is fair: a
\* Lock() that can return again and again does return (sync.Mutex hands the
\* lock to a starving waiter), and an RLock() that can return does
FairCalls ==
    \A t \in Goroutines :
        /\ WF_vars(Runs(t))
        /\ WF_vars(RLock(t))
        /\ SF_vars(Lock(t))

\* the deck of InitConc, dealt down further
InitCalls ==
    /\ InitConc
    /\ topIdx <= MaxCallsTop

SpecCalls == InitCalls /\ [][NextCalls]_vars /\ FairCalls

----------------------------------------------------------------------------
(* The external shuffler *)

\* m := 6 in NewShuffler
NumPiles == 6

ErrCreate == "create shuffle in failed"

ErrWrite == "shuffle file write failed"

ErrPileFlush == "shuffle file flush failed"

ErrOutWrite == "output file write failed"

ErrOutFlush == "output file flush failed"

\* a runtime panic: pile.f.Name() on a nil *os.File
PanicNilFile == "panic: nil pointer dereference"

\* an entry of piles that make() zeroed and FirstPass has not set
NilPile == [f |-> "nil", lines |-> <<>>]

\* createInputFile writes the lines "0", "1", ... and rewinds the file
createInputFile(k) == [i \in 1..k |-> i - 1]

\* the state NewShuffler leaves
NewShuffler(k) ==
    /\ input = createInputFile(k)
    /\ piles = [i \in 1..NumPiles |-> NilPile]
    /\ temps = {}
    /\ out = <<>>
    /\ streams = "open"
    /\ phase = "NewShuffler"
    /\ serr = NoErr
    /\ fault = "none"

\* no deck is in use
NoDeck ==
    /\ topIdx = Nil
    /\ cards = NilCards
    /\ file = "closed"
    /\ op = ""
    /\ arg = Nil
    /\ res = Nil
    /\ err = NoErr
    /\ pre = NoPre
    /\ drawn = Nil

InitShuf ==
    /\ \E k \in 0..MaxLines : NewShuffler(k)
    /\ NoDeck
    /\ start = topIdx
    /\ NoCalls
    /\ NoCodec

\* the lines 1..n of the input that went to pile i, in input order
PileLines(n, assign, i) ==
    LET picked == SelectSeq([j \in 1..n |-> j], LAMBDA j : assign[j] = i)
    IN  [x \in 1..Len(picked) |-> input[picked[x]]]

\* the piles after the scan loop sent lines 1..n to the piles assign names
Distributed(n, assign) ==
    [i \in 1..NumPiles |-> [f |-> "open", lines |-> PileLines(n, assign, i)]]

\* FirstPass: CreateTemp fails for pile c, after piles 1..c-1 were made
FirstPassCreateFails(c) ==
    /\ piles' = [i \in 1..NumPiles |-> IF i < c THEN [f |-> "open", lines |-> <<>>] ELSE NilPile]
    /\ temps' = 1..(c - 1)
    /\ serr' = ErrCreate
    /\ fault' = "create"

\* FirstPass: every pile is made and scanner.Scan() delivers n lines, each
\* sent to the pile s.rnd.Intn picks; a read error ends the scan early, and
\* scanner.Err() is not looked at. Then every pile is flushed and rewound.
FirstPassScans(n, assign, flushFails) ==
    /\ piles' = Distributed(n, assign)
    /\ temps' = 1..NumPiles
    /\ serr' = IF flushFails THEN ErrPileFlush ELSE NoErr
    /\ fault' = IF n < Len(input) THEN "read" ELSE IF flushFails THEN "flush" ELSE "none"

\* FirstPass: the write of line n to its pile fails
FirstPassWriteFails(n, assign) ==
    /\ piles' = Distributed(n - 1, assign)
    /\ temps' = 1..NumPiles
    /\ serr' = ErrWrite
    /\ fault' = "write"

FirstPass ==
    /\ phase = "NewShuffler"
    /\ phase' = "FirstPass"
    /\ \/ \E c \in 1..NumPiles : FirstPassCreateFails(c)
       \/ \E n \in 0..Len(input) : \E assign \in [1..n -> 1..NumPiles] :
            \E flushFails \in {FALSE, n = Len(input)} : FirstPassScans(n, assign, flushFails)
       \/ \E n \in 1..Len(input) : \E assign \in [1..n -> 1..NumPiles] :
            FirstPassWriteFails(n, assign)
    /\ UNCHANGED <<input, out, streams, storeVars, concVars, codecVars>>

\* the orders s.rnd.Shuffle can leave the lines in
Shuffled(lines) ==
    {[k \in 1..Len(lines) |-> lines[p[k]]] :
        p \in {q \in [1..Len(lines) -> 1..Len(lines)] :
                \A a, b \in 1..Len(lines) : q[a] = q[b] => a = b}}

\* SecondPass going through the piles from the last to the first
RECURSIVE WrittenLastPileFirst(_, _, _)
WrittenLastPileFirst(i, last, read) ==
    IF i > last THEN {<<>>}
    ELSE {rest \o a : a \in Shuffled(read[i]), rest \in WrittenLastPileFirst(i + 1, last, read)}

\* what Shuffler.write can append to the output for the lines it scanned
\* from piles i..last, pile by pile; read(i) is what the scan of pile i gave
RECURSIVE Written(_, _, _)
Written(i, last, read) ==
    IF i > last THEN {<<>>}
    ELSE {a \o rest : a \in Shuffled(read[i]), rest \in Written(i + 1, last, read)}

\* SecondPass: the scan of pile c stops after r lines on a read error (c = 0:
\* no read fails); no write fails
SecondPassScans(c, r, flushFails) ==
    LET read == [i \in 1..NumPiles |->
                    IF i = c THEN SubSeq(piles[i].lines, 1, r) ELSE piles[i].lines]
    IN  /\ out' \in Written(1, NumPiles, read)
        /\ serr' = IF flushFails THEN ErrOutFlush ELSE NoErr
        /\ fault' = IF c # 0 THEN "read" ELSE IF flushFails THEN "flush" ELSE "none"

\* SecondPass: a write to the output fails while pile c is written
SecondPassWriteFails(c) ==
    LET read == [i \in 1..NumPiles |-> piles[i].lines]
    IN  /\ out' \in Written(1, c - 1, read)
        /\ serr' = ErrOutWrite
        /\ fault' = "write"

\* the caller runs SecondPass once FirstPass has returned nil (TestShuffler)
SecondPass ==
    /\ phase = "FirstPass"
    /\ serr = NoErr
    /\ phase' = "SecondPass"
    /\ \/ \E flushFails \in BOOLEAN : SecondPassScans(0, 0, flushFails)
       \/ \E c \in 1..NumPiles : \E r \in 0..(Len(piles[c].lines) - 1) :
            SecondPassScans(c, r, FALSE)
       \/ \E c \in 1..NumPiles : piles[c].lines # <<>> /\ SecondPassWriteFails(c)
    /\ UNCHANGED <<input, piles, temps, streams, storeVars, concVars, codecVars>>

\* the first pile whose file is nil, NumPiles + 1 if there is none
FirstNilPile ==
    IF \E i \in 1..NumPiles : piles[i].f = "nil"
    THEN CHOOSE i \in 1..NumPiles :
            /\ piles[i].f = "nil"
            /\ \A j \in 1..(i - 1) : piles[j].f # "nil"
    ELSE NumPiles + 1

\* Shuffler.Close: in and out are closed; then pile by pile the file is
\* closed and removed, until pile.f.Name() meets a nil file and panics
ShufflerClose ==
    /\ phase \in {"NewShuffler", "FirstPass", "SecondPass"}
    /\ phase' = "Close"
    /\ streams' = "closed"
    /\ piles' = [i \in 1..NumPiles |->
                    IF i < FirstNilPile THEN [piles[i] EXCEPT !.f = "closed"] ELSE piles[i]]
    /\ temps' = temps \ 1..(FirstNilPile - 1)
    /\ serr' = IF FirstNilPile <= NumPiles THEN PanicNilFile ELSE NoErr
    /\ UNCHANGED <<input, out, fault, storeVars, concVars, codecVars>>

NextShuf ==
    \/ FirstPass
    \/ SecondPass
    \/ ShufflerClose

SpecShuf == InitShuf /\ [][NextShuf]_vars

----------------------------------------------------------------------------
(* The card codec applied to cards *)

ValueSet == {Values[i] : i \in DOMAIN Values}

FaceSet == {Faces[i] : i \in DOMAIN Faces}

\* Value.String: the names are indexed from 0
ValueString(v) ==
    LET values == <<"Ace", "Two", "Three", "Four", "Five", "Six", "Seven",
                    "Eight", "Nine", "Ten", "Jack", "Queen", "King">>
    IN  IF Len(values) < v THEN ""
        ELSE IF v < 0 \/ v >= Len(values) THEN Panic
        ELSE values[v + 1]

\* Face.String: the names are indexed from 0
FaceString(f) ==
    LET faces == <<"Spade", "Heart", "Club", "Diamond">>
    IN  IF Len(faces) < f THEN ""
        ELSE IF f < 0 \/ f >= Len(faces) THEN Panic
        ELSE faces[f + 1]

\* the codec is applied to any byte: a Card is a byte, and a deck file or a
\* caller can hold any
InitCodec ==
    /\ coded \in 0..255
    /\ rank = Nil
    /\ suit = Nil
    /\ text = ""
    /\ made = NoPair
    /\ cop = ""
    /\ NoDeck
    /\ start = topIdx
    /\ NoCalls
    /\ NoShuffler

\* no String() call has panicked
CodecAlive == text # Panic

\* NewCard(v, f) for a value and a face of the enumerations
CodecNewCard(v, f) ==
    /\ CodecAlive
    /\ coded' = NewCard(v, f)
    /\ made' = <<v, f>>
    /\ rank' = Nil
    /\ suit' = Nil
    /\ cop' = "NewCard"
    /\ UNCHANGED text
    /\ UNCHANGED <<storeVars, concVars, shufVars>>

\* c.Value()
CardValueCall ==
    /\ CodecAlive
    /\ rank' = CardValue(coded)
    /\ cop' = "Value"
    /\ UNCHANGED <<coded, suit, text, made>>
    /\ UNCHANGED <<storeVars, concVars, shufVars>>

\* c.Face()
CardFaceCall ==
    /\ CodecAlive
    /\ suit' = CardFace(coded)
    /\ cop' = "Face"
    /\ UNCHANGED <<coded, rank, text, made>>
    /\ UNCHANGED <<storeVars, concVars, shufVars>>

\* c.Value().String()
ValueStringCall ==
    /\ CodecAlive
    /\ rank # Nil
    /\ text' = ValueString(rank)
    /\ cop' = "Value.String"
    /\ UNCHANGED <<coded, rank, suit, made>>
    /\ UNCHANGED <<storeVars, concVars, shufVars>>

\* c.Face().String()
FaceStringCall ==
    /\ CodecAlive
    /\ suit # Nil
    /\ text' = FaceString(suit)
    /\ cop' = "Face.String"
    /\ UNCHANGED <<coded, rank, suit, made>>
    /\ UNCHANGED <<storeVars, concVars, shufVars>>

NextCodec ==
    \/ \E v \in ValueSet : \E f \in FaceSet : CodecNewCard(v, f)
    \/ CardValueCall
    \/ CardFaceCall
    \/ ValueStringCall
    \/ FaceStringCall

SpecCodec == InitCodec /\ [][NextCodec]_vars

----------------------------------------------------------------------------
(* Properties of the deck with one caller *)

\* all orders of the sequence s
Arrangements(s) ==
    {[k \in 1..Len(s) |-> s[p[k]]] :
        p \in {q \in [1..Len(s) -> 1..Len(s)] : \A a, b \in 1..Len(s) : q[a] = q[b] => a = b}}

\* C1: a deck NewDeck(n) returns has Size() = n*52; while fewer than n*52
\* Deals have been made since NewDeck the next Deal succeeds; after exactly
\* n*52 successful Deals Size() = 0; and one further Deal fails with "deal
\* called on an empty deck", returns no card and leaves Size() at 0.
DrainThenEmpty ==
    /\ []((op = "NewDeck" /\ err = NoErr) => (SizeBody = arg * 52 /\ len(cards) = arg * 52))
    /\ []((drawn # Nil /\ drawn = len(cards)) => SizeBody = 0)
    /\ [][(drawn # Nil /\ drawn < len(cards) /\ op' = "Deal") => err' = NoErr]_vars
    /\ [][(drawn # Nil /\ drawn = len(cards) /\ op' = "Deal")
            => (err' = ErrEmpty /\ res' = Nil /\ SizeBody' = 0)]_vars

\* a deck of 52 or more cards was dealt out and one more Deal was refused
DrainedWitness ==
    /\ drawn = len(cards)
    /\ drawn >= 52
    /\ op = "Deal"
    /\ err = ErrEmpty

\* C2 (as claimed): Return on a deck that already holds as many cards as the
\* region has bytes returns an error and leaves topIdx and cards as they
\* were, so that -1 <= topIdx < capacity and Size() = topIdx + 1 always.
ReturnGuardsCapacity ==
    /\ []((Constructed /\ Mapped) => (-1 <= topIdx /\ topIdx < len(cards) /\ SizeBody = topIdx + 1))
    /\ [][(Mapped /\ topIdx + 1 = len(cards) /\ op' = "Return")
            => (err' \notin {NoErr, Panic} /\ topIdx' = topIdx /\ cards' = cards)]_vars

\* C3: Shuffle leaves Size() as it was and leaves the multiset of the cards at
\* indices 0..topIdx as it was.
ShuffleKeepsCards ==
    [][(Mapped /\ op' = "Shuffle")
        => /\ SizeBody' = SizeBody
           /\ topIdx' = topIdx
           /\ BagOfSeq(Avail(cards', topIdx')) = BagOfSeq(Avail(cards, topIdx))]_vars

\* a Shuffle of three or more cards has moved another card to index 0
ShuffledWitness ==
    /\ op = "Shuffle"
    /\ err = NoErr
    /\ topIdx >= 2
    /\ cards[0] \notin ForeignCards

\* C4 (as claimed): on a deck with topIdx >= 1, every order of the cards at
\* indices 0..topIdx is a possible result of one Shuffle.
ShuffleReachesEveryOrder ==
    (Alive /\ Mapped /\ 1 <= topIdx /\ topIdx <= MaxShuffleTop /\ topIdx < len(cards))
        => Arrangements(Avail(cards, topIdx))
            \subseteq {Avail(s, topIdx) : s \in ShuffleResults(cards, topIdx)}

\* C5: a successful Deal followed at once by Return of the card it returned
\* restores Size() and the sequence of cards at indices 0..topIdx.
DealReturnRoundTrip ==
    [][(op = "Deal" /\ err = NoErr /\ op' = "Return" /\ arg' = res)
        => /\ err' = NoErr
           /\ SizeBody' = pre[1] + 1
           /\ Avail(cards', topIdx') = Avail(pre[2], pre[1])]_vars

\* a card was dealt and given back at once
RoundTripWitness ==
    /\ op = "Return"
    /\ err = NoErr
    /\ pre # NoPre
    /\ pre[1] >= 0
    /\ arg = pre[2][pre[1]]
    /\ topIdx = pre[1]

\* C16 (as claimed): Shuffle visits the indices topIdx, topIdx-1, ..., 0 in
\* this order and swaps each index i with an index j, 0 <= j <= i.
BackwardFisherYates ==
    (Alive /\ Mapped /\ 0 <= topIdx /\ topIdx <= MaxShuffleTop /\ topIdx < len(cards))
        => \A swaps \in ShuffleSwaps(topIdx) :
            /\ Len(swaps) = topIdx + 1
            /\ \A k \in DOMAIN swaps :
                /\ swaps[k][1] = topIdx - (k - 1)
                /\ 0 <= swaps[k][2]
                /\ swaps[k][2] <= swaps[k][1]

\* the cards NewCard makes of the 13 values and the 4 faces
ValidCards == {NewCard(Values[i], Faces[j]) : i \in DOMAIN Values, j \in DOMAIN Faces}

\* C18 (as claimed): Return refuses a byte that encodes none of the 52 cards,
\* leaving the deck as it was, so that after any sequence of Deal, Return and
\* Shuffle every byte at an index <= topIdx encodes a card. (Stated for a deck
\* that has room for the card; Return on a full deck is the matter of C2.)
ReturnRejectsInvalid ==
    /\ [][(Mapped /\ topIdx + 1 < len(cards) /\ op' = "Return"
                /\ arg' # Nil /\ arg' \notin ValidCards)
            => (err' \notin {NoErr, Panic} /\ topIdx' = topIdx /\ cards' = cards)]_vars
    /\ []((Alive /\ Mapped)
            => \A k \in 0..topIdx : k \in DOMAIN cards => cards[k] \in ValidCards)

ErrClosed == "closed"

\* C6 (as claimed): once Close has returned, every later Size, Deal, Return,
\* Shuffle or Close is rejected with a "closed" error and touches neither
\* cards nor topIdx.
RejectedOnceClosed ==
    [][file = "closed" => (err' = ErrClosed /\ topIdx' = topIdx /\ cards' = cards)]_vars

\* C11: Return(nil) returns the error "cannot return a nil card" and leaves
\* topIdx and every byte of cards as they were, whatever state the deck is in
\* (fresh, partly dealt, empty, shuffled, closed).
NilReturnRejected ==
    [][(op' = "Return" /\ arg' = Nil)
        => (err' = ErrNilCard /\ topIdx' = topIdx /\ cards' = cards)]_vars

\* Return(nil) was refused on a deck that cards had been dealt from
NilReturnWitness ==
    /\ op = "Return"
    /\ arg = Nil
    /\ err = ErrNilCard
    /\ Mapped
    /\ 0 <= topIdx
    /\ topIdx < len(cards) - 1

\* C12: NewDeck(n) writes n copies of the 52 cards, faces in the outer loop and
\* values in the inner loop, so index k holds face (k mod 52) div 13 and value
\* k mod 13; and for n >= 1 the first Deal on the fresh deck returns the King
\* of Diamonds and leaves Size() = n*52 - 1.
ConstructionOrder ==
    /\ []((op = "NewDeck" /\ err = NoErr)
            => /\ arg >= 1
               /\ DOMAIN cards = 0..(arg * 52 - 1)
               /\ \A k \in DOMAIN cards :
                    /\ CardFace(cards[k]) = (k % 52) \div 13
                    /\ CardValue(cards[k]) = k % 13)
    /\ [][(op = "NewDeck" /\ err = NoErr /\ op' = "Deal")
            => /\ err' = NoErr
               /\ CardValue(res') = KING
               /\ CardFace(res') = DIAMOND
               /\ SizeBody' = arg * 52 - 1]_vars

\* the first Deal on a fresh deck of two or more copies returned the King of
\* Diamonds
FirstDealWitness ==
    /\ op = "Deal"
    /\ err = NoErr
    /\ drawn = 1
    /\ len(cards) >= 2 * 52
    /\ topIdx = len(cards) - 2
    /\ res = NewCard(KING, DIAMOND)

----------------------------------------------------------------------------
(* Properties of the deck shared by goroutines *)

\* goroutine t holds the lock: it is between Lock/RLock and the deferred unlock
InCriticalSection(t) == pc[t] \in {"locked", "unlock"}

\* C7: at most one of Deal, Return and Shuffle is inside its critical section
\* at a time, and no Size is inside its own while one of them is.
WritersExclude ==
    \A t, u \in Goroutines :
        (t # u /\ InCriticalSection(t) /\ InCriticalSection(u))
            => (call[t] = "Size" /\ call[u] = "Size")

\* two Size calls are inside their critical sections together
TwoReadersWitness ==
    \E t, u \in Goroutines :
        /\ t # u
        /\ InCriticalSection(t) /\ call[t] = "Size"
        /\ InCriticalSection(u) /\ call[u] = "Size"

\* C17 (as claimed): topIdx and cards change only in a step of the goroutine
\* that holds the lock for writing, and Close releases the region only while
\* no other goroutine is inside the critical section of its Deal, Return,
\* Shuffle or Size, so that no call meets a region a concurrent Close unmapped.
CloseUnderLock ==
    /\ [][(topIdx' # topIdx \/ cards' # cards)
            => \E t \in Goroutines : writer = t /\ pc[t] = "locked" /\ pc'[t] = "unlock"]_vars
    /\ [][\A t \in Goroutines :
            (pc[t] = "close" /\ pc'[t] = "idle")
                => \A u \in Goroutines \ {t} : ~InCriticalSection(u)]_vars
    /\ [][\A t \in Goroutines :
            (InCriticalSection(t) /\ Mapped) => (InCriticalSection(t)' => Mapped')]_vars

\* goroutine t can take a step of the call it is in
CanStep(t) == ENABLED (RLock(t) \/ Lock(t) \/ Runs(t))

\* C19: with a fair lock, every Size, Deal, Return and Shuffle call that was
\* started returns, whether it succeeds or fails (Deal on an empty deck,
\* Return of nil); a goroutine that is not in a call holds no lock; and while
\* any call is under way some goroutine can take a step (no deadlock).
CallsReturn ==
    /\ \A t \in Goroutines : (pc[t] # "idle") ~> (pc[t] = "idle")
    /\ [](\A t \in Goroutines : pc[t] = "idle" => (writer # t /\ t \notin readers))
    /\ []((\E t \in Goroutines : pc[t] # "idle") => \E t \in Goroutines : CanStep(t))

\* a Deal on the empty deck is about to return while a Return of nil waits
\* for the lock
ErrorPathsWitness ==
    \E t, u \in Goroutines :
        /\ t # u
        /\ pc[t] = "unlock" /\ call[t] = "Deal" /\ hand[t] = Nil /\ topIdx = -1
        /\ pc[u] = "lock" /\ call[u] = "Return" /\ hand[u] = Nil

\* the goroutines that hold a card: each got it by a successful Deal and has
\* not given it back by a successful Return, so their number is the number of
\* successful Deals minus the number of successful Returns
Held == {t \in Goroutines : hand[t] # Nil}

\* the cards the goroutines of T hold, as a bag
RECURSIVE HandBag(_)
HandBag(T) ==
    IF T = {} THEN EmptyBag
    ELSE LET t == CHOOSE x \in T : TRUE
         IN  SetToBag({hand[t]}) (+) HandBag(T \ {t})

\* C20: while goroutines Deal, Return what they drew and Shuffle on the open
\* deck, Size() is the initial size minus the successful Deals plus the
\* successful Returns, no two goroutines hold the card of the same slot, and
\* the cards at indices 0..topIdx together with the cards the goroutines hold
\* are the cards the deck started with.
CardsConserved ==
    Mapped
        => /\ SizeBody = (start + 1) - Cardinality(Held)
           /\ \A t, u \in Held : t # u => hand[t] # hand[u]
           /\ BagOfSeq(Avail(cards, topIdx)) (+) HandBag(Held)
                = BagOfSeq(Avail(NewDeckCards(1), start))

\* a card was given back while another goroutine still holds a card that lay
\* below it, so the deck is in another order than it started in
ConservedWitness ==
    /\ Mapped
    /\ Cardinality(Held) = 1
    /\ topIdx = start - 1
    /\ topIdx >= 1
    /\ Avail(cards, topIdx) # Avail(NewDeckCards(1), topIdx)
    /\ \E t \in Goroutines : pc[t] = "unlock" /\ call[t] = "Return"

----------------------------------------------------------------------------
(* Properties of the external shuffler *)

RECURSIVE AllPileLines(_)
AllPileLines(i) == IF i > NumPiles THEN <<>> ELSE piles[i].lines \o AllPileLines(i + 1)

\* C8 (as claimed): after FirstPass the piles together hold every input line
\* exactly once, and after SecondPass the output holds exactly the input's
\* lines, each as often as the input does.
LinesConserved ==
    /\ (phase = "FirstPass" /\ serr = NoErr)
        => /\ Len(AllPileLines(1)) = Len(input)
           /\ BagOfSeq(AllPileLines(1)) = BagOfSeq(input)
    /\ (phase = "SecondPass" /\ serr = NoErr)
        => /\ Len(out) = Len(input)
           /\ BagOfSeq(out) = BagOfSeq(input)

\* C9 (as claimed): when Close is over, every temporary pile file is deleted,
\* in and out are closed, and Close has returned, whatever ran before it.
CloseCleansUp ==
    phase = "Close" => (serr = NoErr /\ temps = {} /\ streams = "closed")

\* C10 (as claimed): a pass that met a failed read of the input or of a pile
\* returns an error.
ReadFailureReported ==
    (phase \in {"FirstPass", "SecondPass"} /\ fault = "read") => serr # NoErr

\* the pile FirstPass wrote the line to
pileOf(line) ==
    CHOOSE i \in 1..NumPiles : \E x \in DOMAIN piles[i].lines : piles[i].lines[x] = line

\* C15: the output of SecondPass is in pile order: every line of the output
\* came from a pile, a line of pile i stands before every line of pile j for
\* i < j, so the lines of one pile are contiguous; and a SecondPass that met
\* no I/O failure wrote every line of every pile.
OutputInPileOrder ==
    phase = "SecondPass"
        => /\ \A a \in DOMAIN out :
                \E i \in 1..NumPiles : \E x \in DOMAIN piles[i].lines : piles[i].lines[x] = out[a]
           /\ \A a, b \in DOMAIN out : a < b => pileOf(out[a]) <= pileOf(out[b])
           /\ \A a, b, c \in DOMAIN out :
                (a < b /\ b < c /\ pileOf(out[a]) = pileOf(out[c])) => pileOf(out[b]) = pileOf(out[a])
           /\ (serr = NoErr /\ fault = "none") => BagOfSeq(out) = BagOfSeq(AllPileLines(1))

\* two lines of one pile were written in the other order than they were read,
\* and before a line of a later pile
PileOrderWitness ==
    /\ phase = "SecondPass"
    /\ Len(out) = 3
    /\ pileOf(out[1]) = pileOf(out[2])
    /\ pileOf(out[2]) < pileOf(out[3])
    /\ out[1] > out[2]

----------------------------------------------------------------------------
(* Properties of the card codec *)

\* C13 (as claimed): String() of a value index >= 13 or of a face index >= 4,
\* as decoded from any byte, returns the empty string and does not fail.
OutOfRangeRendersEmpty ==
    /\ (cop = "Value.String" /\ rank >= 13) => text = ""
    /\ (cop = "Face.String" /\ suit >= 4) => text = ""

\* C14: for each of the 13 values and 4 faces, Value() and Face() of
\* NewCard(value, face) give back value and face; two different pairs never
\* give the same card; and there are 52 different cards.
CodecRoundTrip ==
    /\ [](made # NoPair
            => /\ rank \in {Nil, made[1]}
               /\ suit \in {Nil, made[2]}
               /\ coded \in ValidCards
               /\ Cardinality(ValidCards) = 52)
    /\ [][(made # NoPair /\ cop' = "NewCard" /\ made' # made) => coded' # coded]_vars

\* the King of Diamonds was encoded and decoded again
RoundTripCodecWitness ==
    /\ made = <<KING, DIAMOND>>
    /\ rank = KING
    /\ suit = DIAMOND
    /\ text = "Diamond"

====
